---- MODULE Spec2Model ----
(***************************************************************************)
(* Model of blutgang's websocket layer:                                    *)
(*   src/src/websocket/types.rs   SubscriptionData (the subscription       *)
(*                                registry, three RwLock-guarded maps)     *)
(*   src/src/websocket/client.rs  ws_conn_manager, ws_conn, execute_ws_call*)
(***************************************************************************)
EXTENDS Integers, Sequences, FiniteSets, TLC

(***************************************************************************)
(* Input domains.                                                          *)
(***************************************************************************)
\* u32 user ids handed to the registry
UserIds == {100, 200}
\* usize node ids
NodeIds == {0, 1}
\* Rust Strings: subscription_request keys and subscription ids are both
\* plain Strings, so they are drawn from one domain
Strings == {"a", "b"}
\* serde_json payloads carried by a RequestResult
Payloads == {"v"}
\* tasks calling into the registry; Spec runs Callers, SpecConc runs Threads
Threads == {1, 2}
Callers == {1}

\* most NodeSubInfo keys the subscriptions map is let grow to
MaxNodeSubs == 2
\* most messages left unread in one user's unbounded channel
MaxChan == 1

(***************************************************************************)
(* Types of types.rs                                                       *)
(***************************************************************************)
\* enum RequestResult { Call(Value), Subscription(Value) }
RequestResult == [kind : {"Call", "Subscription"}, value : Payloads]

\* struct NodeSubInfo { node_id, subscription_id }
NodeSubInfo(node_id, subscription_id) ==
    [node_id |-> node_id, subscription_id |-> subscription_id]

\* HashMap::insert
HashMapInsert(m, k, v) ==
    [x \in DOMAIN m \cup {k} |-> IF x = k THEN v ELSE m[x]]

\* HashMap::remove
HashMapRemove(m, k) == [x \in DOMAIN m \ {k} |-> m[x]]

\* HashMap::new
HashMapNew == [x \in {} |-> 0]

LockNames == {"users", "subscriptions", "incoming_subscriptions"}

NoMsg == [kind |-> "none", value |-> ""]

\* return values: none yet, (), Ok(v), Err(e)
NoRet == <<"-">>
Unit == <<"()">>
Ok(v) == <<"Ok", v>>
Err(e) == <<"Err", e>>

\* a caller that is not inside a registry call
Idle ==
    [pc |-> "idle", op |-> "", user_id |-> 0, subscription |-> "",
     subscription_id |-> "", node_id |-> 0, message |-> NoMsg, ret |-> NoRet]

\* a caller inside (or just back from) registry call op with these arguments
Frame(pc, op, user_id, subscription, subscription_id, node_id, message, ret) ==
    [pc |-> pc, op |-> op, user_id |-> user_id, subscription |-> subscription,
     subscription_id |-> subscription_id, node_id |-> node_id, message |-> message,
     ret |-> ret]

VARIABLES
    users,                   \* HashMap<u32, UserData>: user id -> contents of its channel
    subscriptions,           \* HashMap<NodeSubInfo, HashSet<u32>>
    incoming_subscriptions,  \* HashMap<String, NodeSubInfo>
    readers,                 \* per RwLock: the callers holding a read guard
    writer,                  \* per RwLock: the callers holding the write guard
    th                       \* per caller: its position in a registry call, the
                             \* call's arguments and, once back, its return value

regvars == <<users, subscriptions, incoming_subscriptions, readers, writer, th>>

VARIABLES
    rpc_list,      \* Vec<Rpc>: per node its rank and status.is_erroring
    incoming_rx,   \* the manager's ingress channel (execute_ws_call's incoming_tx)
    rpc_position,  \* the index pick() returned last
    ws_handles,    \* per worker: its unbounded outbound queue (ConnectionChannels.incoming_tx)
    conn,          \* per worker: where its task is
    ws_stream,     \* per worker: "none", "open" or "broken" socket
    sent,          \* per worker: the frames written to the socket, in order
    answered,      \* per worker: the positions in sent the upstream has answered
    broadcast,     \* every value published on the broadcast channel, in order
    call,          \* per correlator: its locals and its position
    nsubmit,       \* values handed to worker queues so far
    nnotify        \* unsolicited frames sent by upstreams so far

wsvars == <<rpc_list, incoming_rx, rpc_position, ws_handles, conn, ws_stream, sent,
            answered, broadcast, call, nsubmit, nnotify>>

vars == <<regvars, wsvars>>

\* RwLock::read succeeds when no writer holds the lock
CanRead(l) == writer[l] = {}

\* RwLock::write succeeds when nobody holds the lock
CanWrite(l) == writer[l] = {} /\ readers[l] = {}

\* caller t is back from its call with value ret
Return(t, ret) == [th[t] EXCEPT !.pc = "returned", !.ret = ret]

\* SubscriptionData::new
RegInit ==
    /\ users = HashMapNew
    /\ subscriptions = HashMapNew
    /\ incoming_subscriptions = HashMapNew
    /\ readers = [l \in LockNames |-> {}]
    /\ writer = [l \in LockNames |-> {}]
    /\ th = [t \in Threads |-> Idle]

\* the caller takes the returned value and is free to call again
resume(t) ==
    /\ th[t].pc = "returned"
    /\ th' = [th EXCEPT ![t] = Idle]
    /\ UNCHANGED <<users, subscriptions, incoming_subscriptions, readers, writer>>
    /\ UNCHANGED wsvars

\* add_user: takes users.write, inserts (replacing drops the old channel)
add_user(t, user_id) ==
    /\ th[t].pc = "idle"
    /\ CanWrite("users")
    /\ users' = HashMapInsert(users, user_id, <<>>)
    /\ th' = [th EXCEPT ![t] =
                 Frame("returned", "add_user", user_id, "", "", 0, NoMsg, Unit)]
    /\ UNCHANGED <<subscriptions, incoming_subscriptions, readers, writer>>
    /\ UNCHANGED wsvars

\* the body of remove_user's loop over subscriptions.values_mut()
EvictUser(subs, user_id) == [ns \in DOMAIN subs |-> subs[ns] \ {user_id}]

\* remove_user up to the inner lock: takes users.write and removes the user;
\* only when the user was present does it go on to the subscriptions lock
remove_user(t, user_id) ==
    /\ th[t].pc = "idle"
    /\ CanWrite("users")
    /\ users' = HashMapRemove(users, user_id)
    /\ IF user_id \in DOMAIN users
       THEN /\ th' = [th EXCEPT ![t] =
                         Frame("remove_user_subs", "remove_user", user_id, "", "", 0,
                               NoMsg, NoRet)]
            /\ writer' = [writer EXCEPT !["users"] = {t}]
       ELSE /\ th' = [th EXCEPT ![t] =
                         Frame("returned", "remove_user", user_id, "", "", 0, NoMsg, Unit)]
            /\ UNCHANGED writer
    /\ UNCHANGED <<subscriptions, incoming_subscriptions, readers>>
    /\ UNCHANGED wsvars

\* remove_user, second half: takes subscriptions.write while holding
\* users.write, evicts the user from every set, drops both guards
remove_user_evict(t) ==
    /\ th[t].pc = "remove_user_subs"
    /\ CanWrite("subscriptions")
    /\ subscriptions' = EvictUser(subscriptions, th[t].user_id)
    /\ writer' = [writer EXCEPT !["users"] = {}]
    /\ th' = [th EXCEPT ![t] = Return(t, Unit)]
    /\ UNCHANGED <<users, incoming_subscriptions, readers>>
    /\ UNCHANGED wsvars

\* register_subscription: incoming_subscriptions.insert(request, NodeSubInfo)
register_subscription(t, subscription_request, subscription_id, node_id) ==
    /\ th[t].pc = "idle"
    /\ CanWrite("incoming_subscriptions")
    /\ incoming_subscriptions' =
          HashMapInsert(incoming_subscriptions, subscription_request,
                        NodeSubInfo(node_id, subscription_id))
    /\ th' = [th EXCEPT ![t] =
                 Frame("returned", "register_subscription", 0, subscription_request,
                       subscription_id, node_id, NoMsg, Unit)]
    /\ UNCHANGED <<users, subscriptions, readers, writer>>
    /\ UNCHANGED wsvars

\* Unregister that removes nothing
UnregisterNothing(incoming, subscription_request) == incoming

\* the map update of unregister_subscription
Unregister(incoming, subscription_request) == HashMapRemove(incoming, subscription_request)

\* unregister_subscription: incoming_subscriptions.remove(request)
unregister_subscription(t, subscription_request) ==
    /\ th[t].pc = "idle"
    /\ CanWrite("incoming_subscriptions")
    /\ incoming_subscriptions' = Unregister(incoming_subscriptions, subscription_request)
    /\ th' = [th EXCEPT ![t] =
                 Frame("returned", "unregister_subscription", 0, subscription_request,
                       "", 0, NoMsg, Unit)]
    /\ UNCHANGED <<users, subscriptions, readers, writer>>
    /\ UNCHANGED wsvars

\* InsertSubscriber that starts from a fresh set each time
InsertSubscriberFresh(subs, node_sub_info, user_id) ==
    HashMapInsert(subs, node_sub_info, {user_id})

\* the entry subscribe_user leaves behind: entry(node_sub_info).or_default().insert(user_id)
InsertSubscriber(subs, node_sub_info, user_id) ==
    HashMapInsert(subs, node_sub_info,
                  (IF node_sub_info \in DOMAIN subs THEN subs[node_sub_info] ELSE {})
                      \cup {user_id})

\* subscribe_user up to the inner lock: takes incoming_subscriptions.read and
\* looks the request up; an unknown request returns Err with the guard dropped
subscribe_user(t, user_id, subscription) ==
    /\ th[t].pc = "idle"
    /\ CanRead("incoming_subscriptions")
    /\ IF subscription \notin DOMAIN incoming_subscriptions
       THEN /\ th' = [th EXCEPT ![t] =
                         Frame("returned", "subscribe_user", user_id, subscription, "", 0,
                               NoMsg, Err("does not exist"))]
            /\ UNCHANGED readers
       ELSE /\ \/ incoming_subscriptions[subscription] \in DOMAIN subscriptions
               \/ Cardinality(DOMAIN subscriptions) < MaxNodeSubs
            /\ th' = [th EXCEPT ![t] =
                         Frame("subscribe_user_subs", "subscribe_user", user_id,
                               subscription, "", 0, NoMsg, NoRet)]
            /\ readers' = [readers EXCEPT !["incoming_subscriptions"] = @ \cup {t}]
    /\ UNCHANGED <<users, subscriptions, incoming_subscriptions, writer>>
    /\ UNCHANGED wsvars

\* subscribe_user, second half: takes subscriptions.write while holding
\* incoming_subscriptions.read, inserts the user, returns the subscription id
subscribe_user_insert(t) ==
    /\ th[t].pc = "subscribe_user_subs"
    /\ CanWrite("subscriptions")
    /\ LET node_sub_info == incoming_subscriptions[th[t].subscription]
       IN  /\ subscriptions' = InsertSubscriber(subscriptions, node_sub_info, th[t].user_id)
           /\ th' = [th EXCEPT ![t] = Return(t, Ok(node_sub_info.subscription_id))]
    /\ readers' = [readers EXCEPT !["incoming_subscriptions"] = @ \ {t}]
    /\ UNCHANGED <<users, incoming_subscriptions, writer>>
    /\ UNCHANGED wsvars

\* subscriptions_to_update stopping at the first match
subscriptions_to_update_first(subs, user_id, subscription_id) ==
    LET all == {ns \in DOMAIN subs :
                   ns.subscription_id = subscription_id /\ user_id \in subs[ns]}
    IN  IF all = {} THEN {}
        ELSE {CHOOSE ns \in all : \A other \in all : ns.node_id <= other.node_id}

\* unsubscribe_user's first loop: the NodeSubInfos with this subscription id
\* that hold the user
subscriptions_to_update(subs, user_id, subscription_id) ==
    {ns \in DOMAIN subs : ns.subscription_id = subscription_id /\ user_id \in subs[ns]}

\* RemoveSubscriber that leaves every set as it is
RemoveSubscriberKeep(subs, to_update, user_id) == subs

\* unsubscribe_user's second loop: remove the user from each of them
RemoveSubscriber(subs, to_update, user_id) ==
    [ns \in DOMAIN subs |-> IF ns \in to_update THEN subs[ns] \ {user_id} ELSE subs[ns]]

\* unsubscribe_user: one critical section under subscriptions.write
unsubscribe_user(t, user_id, subscription_id) ==
    /\ th[t].pc = "idle"
    /\ CanWrite("subscriptions")
    /\ subscriptions' =
          RemoveSubscriber(subscriptions,
                           subscriptions_to_update(subscriptions, user_id, subscription_id),
                           user_id)
    /\ th' = [th EXCEPT ![t] =
                 Frame("returned", "unsubscribe_user", user_id, "", subscription_id, 0,
                       NoMsg, Unit)]
    /\ UNCHANGED <<users, incoming_subscriptions, readers, writer>>
    /\ UNCHANGED wsvars

\* IsCall that lets every message through
IsCallNever(message) == FALSE

\* `if let RequestResult::Call(_) = message`
IsCall(message) == message.kind = "Call"

\* dispatch_to_subscribers up to the second lock: a Call is refused before any
\* lock is taken; a Subscription takes users.read
dispatch_to_subscribers(t, subscription_id, node_id, message) ==
    /\ th[t].pc = "idle"
    /\ IF IsCall(message)
       THEN /\ th' = [th EXCEPT ![t] =
                         Frame("returned", "dispatch_to_subscribers", 0, "",
                               subscription_id, node_id, message,
                               Err("Trying to send a call as a subscription!"))]
            /\ UNCHANGED readers
       ELSE /\ CanRead("users")
            /\ \A u \in DOMAIN users : Len(users[u]) < MaxChan
            /\ th' = [th EXCEPT ![t] =
                         Frame("dispatch_subs", "dispatch_to_subscribers", 0, "",
                               subscription_id, node_id, message, NoRet)]
            /\ readers' = [readers EXCEPT !["users"] = @ \cup {t}]
    /\ UNCHANGED <<users, subscriptions, incoming_subscriptions, writer>>
    /\ UNCHANGED wsvars

\* DispatchKey with the node id dropped from the lookup
DispatchKeyNodeZero(t) == NodeSubInfo(0, th[t].subscription_id)

\* the NodeSubInfo a dispatch in progress addresses
DispatchKey(t) == NodeSubInfo(th[t].node_id, th[t].subscription_id)

\* dispatch_to_subscribers, the lookup: takes subscriptions.read (the guard is a
\* temporary of the `if let` and lives to its end); no entry returns Ok
dispatch_lookup(t) ==
    /\ th[t].pc = "dispatch_subs"
    /\ CanRead("subscriptions")
    /\ IF DispatchKey(t) \notin DOMAIN subscriptions
       THEN /\ readers' = [readers EXCEPT !["users"] = @ \ {t}]
            /\ th' = [th EXCEPT ![t] = Return(t, Ok("()"))]
       ELSE /\ readers' = [readers EXCEPT !["subscriptions"] = @ \cup {t}]
            /\ th' = [th EXCEPT ![t].pc =
                         IF subscriptions[DispatchKey(t)] = {}
                         THEN "dispatch_unregister" ELSE "dispatch_send"]
    /\ UNCHANGED <<users, subscriptions, incoming_subscriptions, writer>>
    /\ UNCHANGED wsvars

\* dispatch_to_subscribers on an empty set: calls
\* unregister_subscription(subscription_id), which takes
\* incoming_subscriptions.write, while both read guards are held; the loop
\* over the empty set then sends nothing
dispatch_unregister(t) ==
    /\ th[t].pc = "dispatch_unregister"
    /\ CanWrite("incoming_subscriptions")
    /\ incoming_subscriptions' = Unregister(incoming_subscriptions, th[t].subscription_id)
    /\ readers' = [readers EXCEPT !["users"] = @ \ {t}, !["subscriptions"] = @ \ {t}]
    /\ th' = [th EXCEPT ![t] = Return(t, Ok("()"))]
    /\ UNCHANGED <<users, subscriptions, writer>>
    /\ UNCHANGED wsvars

\* the sends of dispatch's loop: one clone of the message on the channel of
\* every subscriber that users.get finds
SendToSubscribers(usrs, subscribers, message) ==
    [u \in DOMAIN usrs |->
        IF u \in subscribers THEN Append(usrs[u], message) ELSE usrs[u]]

\* dispatch_to_subscribers, the loop: sends under both read guards, then
\* drops them and returns Ok
dispatch_send(t) ==
    /\ th[t].pc = "dispatch_send"
    /\ users' = SendToSubscribers(users, subscriptions[DispatchKey(t)], th[t].message)
    /\ readers' = [readers EXCEPT !["users"] = @ \ {t}, !["subscriptions"] = @ \ {t}]
    /\ th' = [th EXCEPT ![t] = Return(t, Ok("()"))]
    /\ UNCHANGED <<subscriptions, incoming_subscriptions, writer>>
    /\ UNCHANGED wsvars

\* the receiving half of a user's channel takes the oldest message (rx.recv())
user_recv(user_id) ==
    /\ user_id \in DOMAIN users
    /\ users[user_id] # <<>>
    /\ users' = [users EXCEPT ![user_id] = Tail(@)]
    /\ UNCHANGED <<subscriptions, incoming_subscriptions, readers, writer, th>>
    /\ UNCHANGED wsvars

\* register_subscription(k, s, n) and then unregister_subscription(k), called
\* one after the other by one caller with no other call in between
register_then_unregister(t, subscription_request, subscription_id, node_id) ==
    /\ th[t].pc = "idle"
    /\ CanWrite("incoming_subscriptions")
    /\ incoming_subscriptions' =
          Unregister(HashMapInsert(incoming_subscriptions, subscription_request,
                                   NodeSubInfo(node_id, subscription_id)),
                     subscription_request)
    /\ th' = [th EXCEPT ![t] =
                 Frame("returned", "register_then_unregister", 0, subscription_request,
                       subscription_id, node_id, NoMsg, Unit)]
    /\ UNCHANGED <<users, subscriptions, readers, writer>>
    /\ UNCHANGED wsvars

\* subscribe_user(u, k) returning Ok(sid) and then unsubscribe_user(u, sid),
\* called one after the other by one caller with no other call in between
\* (the sequence of test_subscribe_and_unsubscribe_user)
subscribe_then_unsubscribe(t, user_id, subscription) ==
    /\ th[t].pc = "idle"
    /\ CanRead("incoming_subscriptions")
    /\ CanWrite("subscriptions")
    /\ subscription \in DOMAIN incoming_subscriptions
    /\ LET node_sub_info == incoming_subscriptions[subscription]
           subscription_id == node_sub_info.subscription_id
           subscribed == InsertSubscriber(subscriptions, node_sub_info, user_id)
       IN  /\ \/ node_sub_info \in DOMAIN subscriptions
              \/ Cardinality(DOMAIN subscriptions) < MaxNodeSubs
           /\ subscriptions' =
                 RemoveSubscriber(subscribed,
                                  subscriptions_to_update(subscribed, user_id,
                                                          subscription_id),
                                  user_id)
           /\ th' = [th EXCEPT ![t] =
                        Frame("returned", "subscribe_then_unsubscribe", user_id,
                              subscription, subscription_id, node_sub_info.node_id,
                              NoMsg, Unit)]
    /\ UNCHANGED <<users, incoming_subscriptions, readers, writer>>
    /\ UNCHANGED wsvars

\* one step of caller t, its arguments drawn from the given domains
RegStep(t, U, S, N) ==
    \/ \E u \in U : add_user(t, u)
    \/ \E u \in U : remove_user(t, u)
    \/ remove_user_evict(t)
    \/ \E k \in S, s \in S, n \in N : register_subscription(t, k, s, n)
    \/ \E k \in S : unregister_subscription(t, k)
    \/ \E u \in U, k \in S : subscribe_user(t, u, k)
    \/ subscribe_user_insert(t)
    \/ \E u \in U, s \in S : unsubscribe_user(t, u, s)
    \/ \E s \in S, n \in N, m \in RequestResult : dispatch_to_subscribers(t, s, n, m)
    \/ dispatch_lookup(t)
    \/ dispatch_unregister(t)
    \/ dispatch_send(t)
    \/ resume(t)

(***************************************************************************)
(* client.rs: the ingress channel, the manager, one worker per rpc, the    *)
(* broadcast and the per-call correlator execute_ws_call.                  *)
(***************************************************************************)
\* JSON-RPC ids: the callers' own ids and the u32 values random() draws;
\* both are JSON numbers, so they are drawn from one domain
Ids == {1, 2}
\* "id" of a frame that carries none (serde_json indexes it as Null)
Null == 0
\* JSON-RPC methods of the calls ("close" is the worker's control message)
Methods == {"m"}
\* in-flight correlators
Calls == {1, 2}
\* the "id" of the request correlator c is called with: distinct callers
\* send distinct ids
CallerId(c) == c

\* most values handed to the workers' queues by holders of their senders
MaxSubmit == 2
\* most frames the upstreams send that answer no request
MaxNotify == 1

\* a JSON-RPC request, as a serde_json Value
Request(id, method) == [id |-> id, method |-> method, result |-> ""]

\* what the upstream answers to a request: the request's id, and a result
\* that depends on the request
Reply(request) == [id |-> request.id, method |-> "", result |-> request.method]

\* a subscription notification: a frame without an id
Notification == [id |-> Null, method |-> "eth_subscription", result |-> "n"]

\* what a worker would publish for WsconnMessage::Reconnect
Reconnect == [id |-> Null, method |-> "Reconnect", result |-> ""]

\* the values handed to a worker's queue
Requests == {Request(i, m) : i \in Ids, m \in Methods} \cup {Request(Null, "close")}

\* a correlator that has not been started
NoCall == [pc |-> "idle", call |-> Request(Null, ""), id |-> Null, rand_id |-> Null,
           rx |-> 0, response |-> Request(Null, "")]


\* Rpc::new: rank 0, Status::default()
RpcNew == [rank |-> 0, is_erroring |-> FALSE]

\* the registries the manager is started with: node 0 healthy or erroring
RpcLists ==
    {[n \in NodeIds |-> IF n = 0 THEN [RpcNew EXCEPT !.is_erroring = e] ELSE RpcNew] :
        e \in BOOLEAN}

\* the state of client.rs once ws_conn_manager has spawned its workers
WsInit ==
    /\ rpc_list \in RpcLists
    /\ incoming_rx = <<>>
    /\ rpc_position = 0
    /\ ws_handles = [n \in NodeIds |-> <<>>]
    /\ conn = [n \in NodeIds |-> "connecting"]
    /\ ws_stream = [n \in NodeIds |-> "none"]
    /\ sent = [n \in NodeIds |-> <<>>]
    /\ answered = [n \in NodeIds |-> {}]
    /\ broadcast = <<>>
    /\ call = [c \in Calls |-> NoCall]
    /\ nsubmit = 0
    /\ nnotify = 0

\* client.rs before anything runs
WsIdle ==
    /\ WsInit
    /\ rpc_list = [n \in NodeIds |-> RpcNew]

\* pick(): the best node that is not erroring (any node when all are), the
\* lowest index on a tie; with latency and throughput at their defaults the
\* score is the rank
pick(list) ==
    LET healthy == {n \in DOMAIN list : ~list[n].is_erroring}
        pool == IF healthy = {} THEN DOMAIN list ELSE healthy
        best == {n \in pool : \A m \in pool : list[m].rank <= list[n].rank}
    IN  CHOOSE n \in best : \A m \in best : n <= m

\* what the manager does with the request it took and the position picked:
\* nothing, the loop body ends after pick()
Forward(handles, position, incoming) == handles

\* ws_conn_manager's loop body: recv from the ingress channel, pick a node
ws_conn_manager ==
    /\ incoming_rx # <<>>
    /\ incoming_rx' = Tail(incoming_rx)
    /\ rpc_position' = pick(rpc_list)
    /\ ws_handles' = Forward(ws_handles, pick(rpc_list), Head(incoming_rx))
    /\ UNCHANGED <<rpc_list, conn, ws_stream, sent, answered, broadcast, call,
                   nsubmit, nnotify>>
    /\ UNCHANGED regvars

\* a holder of worker n's sender pushes a value onto its queue
submit(n, value) ==
    /\ nsubmit < MaxSubmit
    /\ nsubmit' = nsubmit + 1
    /\ ws_handles' = [ws_handles EXCEPT ![n] = Append(@, value)]
    /\ UNCHANGED <<rpc_list, incoming_rx, rpc_position, conn, ws_stream, sent, answered,
                   broadcast, call, nnotify>>
    /\ UNCHANGED regvars

\* ws_conn: connect_async(url).await.expect(..): Open on success, the task
\* panics on failure
ws_conn_connect(n, ok) ==
    /\ conn[n] = "connecting"
    /\ conn' = [conn EXCEPT ![n] = IF ok THEN "recv" ELSE "panicked"]
    /\ ws_stream' = [ws_stream EXCEPT ![n] = IF ok THEN "open" ELSE "none"]
    /\ UNCHANGED <<rpc_list, incoming_rx, rpc_position, ws_handles, sent, answered,
                   broadcast, call, nsubmit, nnotify>>
    /\ UNCHANGED regvars

\* the socket of worker n fails (the peer or the network)
socket_break(n) ==
    /\ ws_stream[n] = "open"
    /\ ws_stream' = [ws_stream EXCEPT ![n] = "broken"]
    /\ UNCHANGED <<rpc_list, incoming_rx, rpc_position, ws_handles, conn, sent, answered,
                   broadcast, call, nsubmit, nnotify>>
    /\ UNCHANGED regvars

\* recv that takes the value pushed last
recv_newest(queue) == queue[Len(queue)]

\* incoming_tx.recv(): the value at the front of the queue
recv(queue) == Head(queue)

\* ws_conn's loop, first half: recv from the queue; "close" breaks out of the
\* loop; anything else is written to the socket, a failed write is ignored
ws_conn_send(n) ==
    /\ conn[n] = "recv"
    /\ ws_handles[n] # <<>>
    /\ ws_handles' = [ws_handles EXCEPT ![n] = Tail(@)]
    /\ LET incoming == recv(ws_handles[n])
       IN  IF incoming.method = "close"
           THEN /\ conn' = [conn EXCEPT ![n] = "closed"]
                /\ ws_stream' = [ws_stream EXCEPT ![n] = "none"]
                /\ UNCHANGED sent
           ELSE /\ conn' = [conn EXCEPT ![n] = "read"]
                /\ sent' = [sent EXCEPT ![n] =
                               IF ws_stream[n] = "open" THEN Append(@, incoming) ELSE @]
                /\ UNCHANGED ws_stream
    /\ UNCHANGED <<rpc_list, incoming_rx, rpc_position, answered, broadcast, call,
                   nsubmit, nnotify>>
    /\ UNCHANGED regvars

\* the positions in sent[n] the upstream has not answered yet
Unanswered(n) == (1 .. Len(sent[n])) \ answered[n]

\* ws_conn's Ok arm: the frame is parsed and published on the broadcast
Publish(log, frame) == Append(log, frame)

\* ws_conn's loop, second half, Ok arm: the next frame read is the upstream's
\* reply to one of the requests it still owes an answer (in any order)
ws_conn_read_reply(n, i) ==
    /\ conn[n] = "read"
    /\ ws_stream[n] = "open"
    /\ i \in Unanswered(n)
    /\ answered' = [answered EXCEPT ![n] = @ \cup {i}]
    /\ broadcast' = Publish(broadcast, Reply(sent[n][i]))
    /\ conn' = [conn EXCEPT ![n] = "recv"]
    /\ UNCHANGED <<rpc_list, incoming_rx, rpc_position, ws_handles, ws_stream, sent, call,
                   nsubmit, nnotify>>
    /\ UNCHANGED regvars

\* ws_conn's loop, second half, Ok arm: the next frame read is a notification
ws_conn_read_notification(n) ==
    /\ conn[n] = "read"
    /\ ws_stream[n] = "open"
    /\ nnotify < MaxNotify
    /\ nnotify' = nnotify + 1
    /\ broadcast' = Publish(broadcast, Notification)
    /\ conn' = [conn EXCEPT ![n] = "recv"]
    /\ UNCHANGED <<rpc_list, incoming_rx, rpc_position, ws_handles, ws_stream, sent,
                   answered, call, nsubmit>>
    /\ UNCHANGED regvars

\* where the worker goes when read.next() fails on a broken socket: the Err
\* arm prints and loops; the end of the stream (None) panics in unwrap()
AfterReadError(ended) == IF ended THEN "panicked" ELSE "recv"

\* ws_conn's loop, second half on a broken socket
ws_conn_read_error(n, ended) ==
    /\ conn[n] = "read"
    /\ ws_stream[n] = "broken"
    /\ conn' = [conn EXCEPT ![n] = AfterReadError(ended)]
    /\ UNCHANGED <<rpc_list, incoming_rx, rpc_position, ws_handles, ws_stream, sent,
                   answered, broadcast, call, nsubmit, nnotify>>
    /\ UNCHANGED regvars

\* execute_ws_call's loop condition negated: the response that ends the wait
Matches(response, id, rand_id) == response.id = id

\* execute_ws_call up to the first recv: keeps the caller's id, draws
\* rand_id, rewrites the id and sends the call to the manager
execute_ws_call(c, id, method, rand_id) ==
    /\ call[c].pc = "idle"
    /\ incoming_rx' = Append(incoming_rx, Request(rand_id, method))
    /\ call' = [call EXCEPT ![c] =
                   [pc |-> "wait", call |-> Request(id, method), id |-> id,
                    rand_id |-> rand_id, rx |-> Len(broadcast),
                    response |-> Request(Null, "")]]
    /\ UNCHANGED <<rpc_list, rpc_position, ws_handles, conn, ws_stream, sent, answered,
                   broadcast, nsubmit, nnotify>>
    /\ UNCHANGED regvars

\* execute_ws_call's recv loop: takes the next broadcast value; the one that
\* matches gets the caller's id back and is returned
execute_ws_call_recv(c) ==
    /\ call[c].pc = "wait"
    /\ call[c].rx < Len(broadcast)
    /\ LET response == broadcast[call[c].rx + 1]
       IN  call' = [call EXCEPT ![c] =
                       IF Matches(response, call[c].id, call[c].rand_id)
                       THEN [@ EXCEPT !.pc = "done", !.rx = @ + 1,
                                      !.response = [response EXCEPT !.id = call[c].id]]
                       ELSE [@ EXCEPT !.rx = @ + 1]]
    /\ UNCHANGED <<rpc_list, incoming_rx, rpc_position, ws_handles, conn, ws_stream, sent,
                   answered, broadcast, nsubmit, nnotify>>
    /\ UNCHANGED regvars

\* one step of a task of client.rs
WsProgram ==
    \/ ws_conn_manager
    \/ \E n \in NodeIds : ws_conn_send(n)
    \/ \E n \in NodeIds, i \in 1 .. MaxSubmit : ws_conn_read_reply(n, i)
    \/ \E n \in NodeIds : ws_conn_read_notification(n)
    \/ \E n \in NodeIds, ended \in BOOLEAN : ws_conn_read_error(n, ended)
    \/ \E c \in Calls : execute_ws_call_recv(c)

\* one step of what surrounds it: callers, holders of queue senders, the network
WsEnvironment ==
    \/ \E c \in Calls, m \in Methods, r \in Ids : execute_ws_call(c, CallerId(c), m, r)
    \/ \E n \in NodeIds, v \in Requests : submit(n, v)
    \/ \E n \in NodeIds, ok \in BOOLEAN : ws_conn_connect(n, ok)
    \/ \E n \in NodeIds : socket_break(n)

Init == RegInit /\ WsIdle

\* the partial maps from keys to values
PartialMaps(keys, values) == UNION {[d -> values] : d \in SUBSET keys}

\* every NodeSubInfo over the input domains
NodeSubInfos == {NodeSubInfo(n, s) : n \in NodeIds, s \in Strings}

\* the registry states a sequence of calls can start from: each one is left
\* behind by some run of add_user, register_subscription, subscribe_user and
\* unsubscribe_user calls, with no call in progress and every channel drained
SeqInit ==
    /\ users \in {[u \in present |-> <<>>] : present \in SUBSET UserIds}
    /\ incoming_subscriptions \in PartialMaps(Strings, NodeSubInfos)
    /\ subscriptions \in {m \in PartialMaps(NodeSubInfos, SUBSET UserIds) :
                              Cardinality(DOMAIN m) <= MaxNodeSubs}
    /\ readers = [l \in LockNames |-> {}]
    /\ writer = [l \in LockNames |-> {}]
    /\ th = [t \in Threads |-> Idle]
    /\ WsIdle

\* one call sequence of one caller
NextSeq ==
    \/ \E t \in Callers, k \in Strings, s \in Strings, n \in NodeIds :
          register_then_unregister(t, k, s, n)
    \/ \E t \in Callers, u \in UserIds, k \in Strings :
          subscribe_then_unsubscribe(t, u, k)
    \/ \E t \in Callers : resume(t)

\* the registry under two-call sequences, from every registry state
SpecSeq == SeqInit /\ [][NextSeq]_vars

\* the registry driven by one caller at a time
Next ==
    \/ \E t \in Callers : RegStep(t, UserIds, Strings, NodeIds)
    \/ \E u \in UserIds : user_recv(u)

Spec == Init /\ [][Next]_vars

\* the arguments of the concurrent callers: one user, one request key and
\* subscription id, one node
ConcUserIds == {100}
ConcStrings == {"a"}
ConcNodeIds == {0}

\* the registry shared by concurrent callers
NextConc ==
    \/ \E t \in Threads : RegStep(t, ConcUserIds, ConcStrings, ConcNodeIds)
    \/ \E u \in ConcUserIds : user_recv(u)

SpecConc == Init /\ [][NextConc]_vars

\* the rest of a call that has taken its first lock
Continue(t) ==
    \/ remove_user_evict(t)
    \/ subscribe_user_insert(t)
    \/ dispatch_lookup(t)
    \/ dispatch_unregister(t)
    \/ dispatch_send(t)

\* a caller inside a call is a running thread: it goes on when the lock it
\* waits for is free again and again (no caller is starved of a lock)
FairSpecConc == SpecConc /\ \A t \in Threads : SF_vars(Continue(t))

InitWs == RegInit /\ WsInit

NextWs == WsProgram \/ WsEnvironment

\* the manager, the workers and the correlators
SpecWs == InitWs /\ [][NextWs]_vars

\* the tasks of client.rs run whenever they can: each correlator, the
\* manager and each worker is a spawned tokio task
FairSpecWs ==
    /\ SpecWs
    /\ WF_vars(ws_conn_manager)
    /\ \A c \in Calls : WF_vars(execute_ws_call_recv(c))
    /\ \A n \in NodeIds : WF_vars(ws_conn_send(n))

(***************************************************************************)
(* Claims about types.rs (SubscriptionData)                                *)
(***************************************************************************)

\* caller t is back from call op in this state
Back(t, op) == th[t].pc = "returned" /\ th[t].op = op

\* this step is a step of a dispatch_to_subscribers call by caller t
DispatchStep(t) == th'[t] # th[t] /\ th'[t].op = "dispatch_to_subscribers"

C3_RemovedUserIsGone ==
    \A t \in Threads :
        Back(t, "remove_user")
        => /\ th[t].user_id \notin DOMAIN users
           /\ \A ns \in DOMAIN subscriptions : th[t].user_id \notin subscriptions[ns]

\* C4: with no registry call in progress, every user id in a subscriber set
\* is a key of users
C4_SubscribersAreUsers ==
    (\A t \in Threads : th[t].pc \in {"idle", "returned"})
    => \A ns \in DOMAIN subscriptions : subscriptions[ns] \subseteq DOMAIN users

\* C5: a dispatch of a notification to a NodeSub whose subscriber set is
\* empty returns Ok and leaves no entry of incoming_subscriptions whose value
\* is that NodeSub
C5_EmptyDispatchRetiresNodeSub ==
    \A t \in Threads :
        LET ns == NodeSubInfo(th[t].node_id, th[t].subscription_id)
        IN  (/\ Back(t, "dispatch_to_subscribers")
             /\ th[t].message.kind = "Subscription"
             /\ ns \in DOMAIN subscriptions
             /\ subscriptions[ns] = {})
            => /\ th[t].ret = Ok("()")
               /\ \A k \in DOMAIN incoming_subscriptions : incoming_subscriptions[k] # ns

\* this step is unsubscribe_user, called and back, by caller t
UnsubscribeStep(t) ==
    th[t].pc = "idle" /\ th'[t].pc = "returned" /\ th'[t].op = "unsubscribe_user"

\* C10: unsubscribe_user(u, sid) leaves u in no NodeSub with that sid, on any
\* node; NodeSubs with another sid and the membership of every other user
\* stay as they were, and no entry is created
C10_UnsubscribeRemovesOnEveryNode ==
    [][\A t \in Threads :
          UnsubscribeStep(t)
          => LET u == th'[t].user_id
                 sid == th'[t].subscription_id
             IN  /\ DOMAIN subscriptions' = DOMAIN subscriptions
                 /\ \A ns \in DOMAIN subscriptions :
                       /\ ns.subscription_id = sid => u \notin subscriptions'[ns]
                       /\ ns.subscription_id # sid => subscriptions'[ns] = subscriptions[ns]
                       /\ subscriptions'[ns] \ {u} = subscriptions[ns] \ {u}]_vars

\* C10 witness: unsubscribe_user(u, sid) is back, sid occurs on two nodes,
\* neither set holds u and another user is still subscribed
C10_Witness ==
    \E t \in Threads :
        /\ Back(t, "unsubscribe_user")
        /\ \E ns1, ns2 \in DOMAIN subscriptions :
              /\ ns1.node_id # ns2.node_id
              /\ ns1.subscription_id = th[t].subscription_id
              /\ ns2.subscription_id = th[t].subscription_id
              /\ th[t].user_id \notin subscriptions[ns1] \cup subscriptions[ns2]
              /\ th[t].user_id \in DOMAIN users
              /\ subscriptions[ns1] # {}

\* this step is the call of dispatch_to_subscribers by caller t
DispatchCallStep(t) ==
    th[t].pc = "idle" /\ th'[t].pc # "idle" /\ th'[t].op = "dispatch_to_subscribers"

\* C11: dispatch_to_subscribers with a Call message returns the error at once,
\* pushes nothing onto any channel and leaves users, subscriptions and
\* incoming_subscriptions (and the three locks) as they were, whatever the
\* subscriber set of the addressed NodeSub
C11_CallIsRefused ==
    [][\A t \in Threads :
          (DispatchCallStep(t) /\ th'[t].message.kind = "Call")
          => /\ th'[t].pc = "returned"
             /\ th'[t].ret = Err("Trying to send a call as a subscription!")
             /\ UNCHANGED <<users, subscriptions, incoming_subscriptions, readers,
                            writer>>]_vars

\* C11 witness: a Call dispatch is back with the error while the NodeSub it
\* addressed has a subscriber with a channel
C11_Witness ==
    \E t \in Threads :
        /\ Back(t, "dispatch_to_subscribers")
        /\ th[t].message.kind = "Call"
        /\ th[t].ret = Err("Trying to send a call as a subscription!")
        /\ LET ns == NodeSubInfo(th[t].node_id, th[t].subscription_id)
           IN  /\ ns \in DOMAIN subscriptions
               /\ \E u \in subscriptions[ns] : u \in DOMAIN users /\ users[u] = <<>>

\* this step is a step of a subscribe_user call by caller t
SubscribeStep(t) == th'[t] # th[t] /\ th'[t].op = "subscribe_user"

\* C12: subscribe_user(u, request_key) with request_key no key of
\* incoming_subscriptions returns the error and changes none of the maps;
\* otherwise it adds u to the subscriber set of incoming[request_key]
\* (created when absent), changes nothing else and returns that NodeSub's
\* subscription id
C12_SubscribeUser ==
    [][\A t \in Threads :
          SubscribeStep(t)
          => LET u == th'[t].user_id
                 key == th'[t].subscription
             IN  /\ UNCHANGED <<users, incoming_subscriptions>>
                 /\ key \notin DOMAIN incoming_subscriptions
                       => /\ th'[t].pc = "returned"
                          /\ th'[t].ret = Err("does not exist")
                          /\ UNCHANGED subscriptions
                 /\ key \in DOMAIN incoming_subscriptions
                       => LET ns == incoming_subscriptions[key]
                              before == IF ns \in DOMAIN subscriptions
                                        THEN subscriptions[ns] ELSE {}
                          IN  \/ th'[t].pc = "subscribe_user_subs" /\ UNCHANGED subscriptions
                              \/ /\ th'[t].pc = "returned"
                                 /\ th'[t].ret = Ok(ns.subscription_id)
                                 /\ DOMAIN subscriptions' = DOMAIN subscriptions \cup {ns}
                                 /\ subscriptions'[ns] = before \cup {u}
                                 /\ \A other \in DOMAIN subscriptions \ {ns} :
                                       subscriptions'[other] = subscriptions[other]]_vars

\* C12 witness: subscribe_user is back with the subscription id and the
\* NodeSub's set holds the user beside an earlier subscriber
C12_Witness ==
    \E t \in Threads :
        /\ Back(t, "subscribe_user")
        /\ th[t].subscription \in DOMAIN incoming_subscriptions
        /\ LET ns == incoming_subscriptions[th[t].subscription]
           IN  /\ th[t].ret = Ok(ns.subscription_id)
               /\ ns \in DOMAIN subscriptions
               /\ th[t].user_id \in subscriptions[ns]
               /\ subscriptions[ns] # {th[t].user_id}

\* this step is the sequence op, called and back, by caller t
SeqStep(t, op) == th[t].pc = "idle" /\ th'[t].pc = "returned" /\ th'[t].op = op

\* C13 as stated: register_subscription(k, s, n) followed by
\* unregister_subscription(k) leaves incoming_subscriptions equal to its state
\* before the register call, also when k was mapped before
C13_RegisterUnregisterRoundTrip ==
    [][\A t \in Threads :
          SeqStep(t, "register_then_unregister")
          => incoming_subscriptions' = incoming_subscriptions]_vars

\* C13 amended: register_subscription(k, s, n) followed by
\* unregister_subscription(k) leaves no entry for k and every other entry as
\* it was; incoming_subscriptions is equal to its state before the register
\* call exactly when k was no key of it
C13_RegisterUnregisterFreshKey ==
    [][\A t \in Threads :
          SeqStep(t, "register_then_unregister")
          => LET k == th'[t].subscription
             IN  /\ DOMAIN incoming_subscriptions' = DOMAIN incoming_subscriptions \ {k}
                 /\ \A other \in DOMAIN incoming_subscriptions' :
                       incoming_subscriptions'[other] = incoming_subscriptions[other]
                 /\ (incoming_subscriptions' = incoming_subscriptions)
                       <=> (k \notin DOMAIN incoming_subscriptions)]_vars

\* C13 witness: register then unregister of k is back, k is no key and
\* another request is still registered
C13_Witness ==
    \E t \in Threads :
        /\ Back(t, "register_then_unregister")
        /\ th[t].subscription \notin DOMAIN incoming_subscriptions
        /\ incoming_subscriptions # HashMapNew

\* the subscriber set of ns in subs, empty when ns has no entry
SubscribersOf(subs, ns) == IF ns \in DOMAIN subs THEN subs[ns] ELSE {}

\* C14 as stated: subscribe_user(u, k) returning sid followed by
\* unsubscribe_user(u, sid) leaves subscriptions (its keys and every set)
\* equal to its state before the subscribe call
C14_SubscribeUnsubscribeRoundTrip ==
    [][\A t \in Threads :
          SeqStep(t, "subscribe_then_unsubscribe")
          => subscriptions' = subscriptions]_vars

\* C14 amended: subscribe_user(u, k) returning sid followed by
\* unsubscribe_user(u, sid) leaves the NodeSub of k with an entry (an empty one
\* when it had none), u in no set of a NodeSub with that sid on any node, and
\* every other membership as it was; subscriptions is equal to its state
\* before when the NodeSub had an entry and u was in no set with that sid
C14_SubscribeUnsubscribeUnsubscribed ==
    [][\A t \in Threads :
          SeqStep(t, "subscribe_then_unsubscribe")
          => LET u == th'[t].user_id
                 sid == th'[t].subscription_id
                 ns == incoming_subscriptions[th'[t].subscription]
             IN  /\ sid = ns.subscription_id
                 /\ DOMAIN subscriptions' = DOMAIN subscriptions \cup {ns}
                 /\ \A x \in DOMAIN subscriptions' :
                       subscriptions'[x] =
                          IF x.subscription_id = sid
                          THEN SubscribersOf(subscriptions, x) \ {u}
                          ELSE SubscribersOf(subscriptions, x)
                 /\ (/\ ns \in DOMAIN subscriptions
                     /\ \A x \in DOMAIN subscriptions :
                           x.subscription_id = sid => u \notin subscriptions[x])
                       => subscriptions' = subscriptions]_vars

\* C14 witness: subscribe then unsubscribe of u is back, the NodeSub of the
\* request still has another subscriber and the same sid has an entry on
\* another node
C14_Witness ==
    \E t \in Threads :
        /\ Back(t, "subscribe_then_unsubscribe")
        /\ LET ns == NodeSubInfo(th[t].node_id, th[t].subscription_id)
           IN  /\ ns \in DOMAIN subscriptions
               /\ subscriptions[ns] # {}
               /\ th[t].user_id \notin subscriptions[ns]
               /\ \E x \in DOMAIN subscriptions :
                     x.subscription_id = ns.subscription_id /\ x.node_id # ns.node_id

\* caller t is inside a registry call
InCall(t) == th[t].pc \notin {"idle", "returned"}

\* C18: concurrent registry calls never wait on each other forever: every
\* call that has started comes back
C18_EveryCallCompletes ==
    \A t \in Threads : InCall(t) ~> (th[t].pc = "returned")

\* caller t holds a guard of lock l
Holds(t, l) == t \in readers[l] \cup writer[l]

\* the lock caller t asks for next, by its position
Wanted(t) ==
    CASE th[t].pc \in {"remove_user_subs", "subscribe_user_subs", "dispatch_subs"}
            -> {"subscriptions"}
      [] th[t].pc = "dispatch_unregister" -> {"incoming_subscriptions"}
      [] OTHER -> {}

\* the place of a lock in the order users, subscriptions, incoming
LockRank(l) ==
    CASE l = "users" -> 1
      [] l = "subscriptions" -> 2
      [] l = "incoming_subscriptions" -> 3

\* C19: a caller that asks for a lock while it holds others holds only locks
\* that come earlier in the order users, subscriptions, incoming
C19_LocksTakenInOrder ==
    \A t \in Threads : \A held \in LockNames : \A wanted \in Wanted(t) :
        Holds(t, held) => LockRank(held) < LockRank(wanted)

\* C20: when dispatch_to_subscribers pushes a message onto a user's channel
\* the dispatching caller holds none of the three locks
C20_DispatchSendsUnlocked ==
    [][\A t \in Threads :
          (th[t].pc = "dispatch_send" /\ th'[t].pc = "returned" /\ users' # users)
          => \A l \in LockNames : ~Holds(t, l)]_vars

(***************************************************************************)
(* Claims about client.rs                                                  *)
(***************************************************************************)

\* C1: of two concurrent calls with distinct caller ids (and distinct wire
\* ids), each returns the reply to its own request (the broadcast value that
\* carries the wire id it put on its request), with the caller's id restored
C1_EachCallReturnsItsOwnReply ==
    \A c \in Calls :
        (/\ \A d \in Calls : call[d].pc # "idle"
         /\ \A d \in Calls \ {c} : call[d].id # call[c].id /\ call[d].rand_id # call[c].rand_id
         /\ call[c].pc = "done")
        => /\ broadcast[call[c].rx].id = call[c].rand_id
           /\ call[c].response = [Reply(Request(call[c].rand_id, call[c].call.method))
                                     EXCEPT !.id = call[c].call.id]

\* C6: the wire ids of the calls that are pending at the same time are
\* pairwise distinct
C6_PendingWireIdsDistinct ==
    \A c, d \in Calls :
        (c # d /\ call[c].pc = "wait" /\ call[d].pc = "wait")
        => call[c].rand_id # call[d].rand_id

\* C7: a request the manager takes from the ingress channel is pushed onto
\* the queue of the worker pick() selected
C7_ManagerForwardsToPickedWorker ==
    [][Len(incoming_rx') < Len(incoming_rx)
       => ws_handles'[rpc_position'] =
             Append(ws_handles[rpc_position'], Head(incoming_rx))]_vars

\* worker n runs into an I/O error in this step: a write or a read on its
\* broken socket
IoErrorStep(n) ==
    /\ ws_stream[n] = "broken"
    /\ \/ conn[n] = "recv" /\ conn'[n] = "read"
       \/ conn[n] = "read" /\ conn'[n] # "read"

\* C8: a worker that hits an I/O error on its open connection publishes
\* Reconnect on the broadcast and goes back to connecting
C8_IoErrorReconnects ==
    [][\A n \in NodeIds :
          IoErrorStep(n)
          => /\ conn'[n] = "connecting"
             /\ broadcast' = Append(broadcast, Reconnect)]_vars

\* C9: every call that waits for its response returns in the end, with the
\* response or, past its deadline, with a Timeout error
C9_EveryCallReturns ==
    \A c \in Calls : (call[c].pc = "wait") ~> (call[c].pc \in {"done", "timeout"})

\* C15: per worker, the frames written to its upstream are written in the
\* order in which the values were pushed onto its queue: values join the
\* queue at its back, leave it at its front, and a frame written is the
\* value that has just left the front
C15_FramesSentInSubmissionOrder ==
    [][\A n \in NodeIds :
          /\ sent'[n] # sent[n]
                => /\ ws_handles[n] # <<>>
                   /\ sent'[n] = Append(sent[n], Head(ws_handles[n]))
                   /\ ws_handles'[n] = Tail(ws_handles[n])
          /\ ws_handles'[n] # ws_handles[n]
                => \/ ws_handles[n] # <<>> /\ ws_handles'[n] = Tail(ws_handles[n])
                   \/ \E v \in Requests : ws_handles'[n] = Append(ws_handles[n], v)]_vars

\* C15 witness: a worker has written two different frames, the second one
\* while nothing else was queued
C15_Witness ==
    \E n \in NodeIds :
        /\ Len(sent[n]) = 2
        /\ sent[n][1] # sent[n][2]
        /\ ws_handles[n] = <<>>

\* C16: a waiting call completes on the broadcast value whose id is the wire
\* id it drew for this call, and on no other value: a value with another id
\* is passed over, also when that id is the caller's original id
C16_CompletesOnWireIdOnly ==
    [][\A c \in Calls :
          (call[c].pc = "wait" /\ call'[c] # call[c])
          => LET response == broadcast[call[c].rx + 1]
             IN  (call'[c].pc = "done") <=> (response.id = call[c].rand_id)]_vars

\* worker n is Open: connected, its socket up, its task in the loop
Open(n) == ws_stream[n] = "open" /\ conn[n] \in {"recv", "read"}

\* C17: while a worker is Open its two directions do not wait for each
\* other: a value on its queue can be written whether or not an inbound
\* frame arrives, and the reply the upstream owes can be read and published
\* whether or not another value is pushed onto the queue
C17_DirectionsAreIndependent ==
    \A n \in NodeIds :
        Open(n)
        => /\ ws_handles[n] # <<>> => ENABLED ws_conn_send(n)
           /\ Unanswered(n) # {} => ENABLED (\E i \in Unanswered(n) : ws_conn_read_reply(n, i))

====
